---- MODULE Spec2Model ----
(***************************************************************************)
(* Model of the tool plugin registration subsystem of mcp-tool-kit:       *)
(* app/tools/tool_registry.py (ToolRegistry), app/tools/base_tool.py,     *)
(* config_loader.py and the module-level start-up of mcp_server_v2.py.    *)
(*                                                                         *)
(* A tools directory holds three source units.  What the hooks of a unit  *)
(* do (return, raise, fail to import) is an input: it is fixed the first  *)
(* time the unit is processed and stays the same for later passes.        *)
(***************************************************************************)
EXTENDS Integers, Sequences, FiniteSets, TLC

\* ------------------------------------------------------------------------
\* Bounds
\* ------------------------------------------------------------------------

\* number of times register_all_tools is run on the same registry
MaxPasses == 2

\* the largest retry count of an SDK call
MaxRetry == 2

\* the clock of the SDK runs from 0 to MaxTime
MaxTime == 2

\* operations in one batch
MaxBatch == 2

\* ------------------------------------------------------------------------
\* The tools directory (input)
\* ------------------------------------------------------------------------

\* file stems, as sequences of the words that "_" separates
ModuleWords ==
  [time_tools    |-> <<"time", "tools">>,
   time_tools_v2 |-> <<"time", "tools", "v2">>,
   fred          |-> <<"fred">>]

Modules == DOMAIN ModuleWords

\* the order in which Path.glob yields the units
discover_tools == <<"time_tools", "time_tools_v2", "fred">>

\* units written in the legacy convention (set_external_mcp + initialize,
\* no BaseTool subclass); the others define one BaseTool subclass
LegacyModules == {"time_tools", "fred"}

IsLegacy(m) == m \in LegacyModules

\* str.title() on one word
TitleWord(w) ==
  CASE w = "time"  -> "Time"
    [] w = "tools" -> "Tools"
    [] w = "v2"    -> "V2"
    [] w = "fred"  -> "Fred"
    [] OTHER       -> w

RECURSIVE JoinWords(_, _)
JoinWords(ws, sep) ==
  IF ws = <<>> THEN ""
  ELSE IF Len(ws) = 1 THEN ws[1]
  ELSE ws[1] \o sep \o JoinWords(Tail(ws), sep)

\* LegacyToolWrapper.get_name: module_name.replace("_", " ").title()
LegacyName(m) ==
  JoinWords([i \in 1..Len(ModuleWords[m]) |-> TitleWord(ModuleWords[m][i])], " ")

\* tool_class.__name__
ClassName(m) ==
  IF IsLegacy(m) THEN "LegacyToolWrapper"
  ELSE CASE m = "time_tools_v2" -> "TimeTools"
         [] OTHER               -> m

\* tool.get_name()
GetName(m) ==
  IF IsLegacy(m) THEN LegacyName(m)
  ELSE CASE m = "time_tools_v2" -> "Time Tools"
         [] OTHER               -> m

\* the resource providers a unit exposes (get_<name>_resources()):
\* resource paths in insertion order
GetResources(m) ==
  CASE m = "fred" -> <<"fred://series/{id}">>
    [] OTHER      -> <<>>

\* an attribute the unit does not have
Absent == <<"<absent>">>

\* the accessors of the legacy units: get_<module_name>_tools,
\* get_<module_name without "_">_tools and get_tools, each Absent or the
\* operation names of the mapping it returns
LegacyAccessors(m) ==
  CASE m = "time_tools" ->
         [named |-> <<"get_current_time", "convert_time">>,
          stripped |-> Absent, generic |-> Absent]
    [] m = "fred" ->
         [named |-> <<"fred_get_series">>,
          stripped |-> <<"fred_get_series">>, generic |-> Absent]
    [] OTHER ->
         [named |-> Absent, stripped |-> Absent, generic |-> Absent]

\* LegacyToolWrapper.get_tools: the first accessor the unit has is called
LegacyGetTools(mod) ==
  IF mod.named # Absent THEN mod.named
  ELSE IF mod.stripped # Absent THEN mod.stripped
  ELSE IF mod.generic # Absent THEN mod.generic
  ELSE <<>>

\* variant: every supplied keyword option is passed on
InitCallUnfiltered(params, kwargs) ==
  IF params = {} THEN [args |-> <<>>, kw |-> [x \in {} |-> TRUE]]
  ELSE IF "mcp" \in params THEN [args |-> <<"mcp">>, kw |-> [x \in {} |-> TRUE]]
  ELSE [args |-> <<>>, kw |-> kwargs]

\* LegacyToolWrapper.initialize: the positional and keyword arguments of
\* the call of the unit's initialize, from its declared parameters
InitCall(params, kwargs) ==
  IF params = {} THEN [args |-> <<>>, kw |-> [x \in {} |-> TRUE]]
  ELSE IF "mcp" \in params THEN [args |-> <<"mcp">>, kw |-> [x \in {} |-> TRUE]]
  ELSE [args |-> <<>>,
        kw |-> [k \in DOMAIN kwargs \cap params |-> kwargs[k]]]

\* tool.get_tools(): operation names in insertion order
GetTools(m) ==
  IF IsLegacy(m) THEN LegacyGetTools(LegacyAccessors(m))
  ELSE CASE m = "time_tools_v2" -> <<"get_current_time", "convert_time">>
         [] OTHER               -> <<>>

\* tool.get_dependencies()
GetDependencies(m) ==
  CASE m = "time_tools_v2" -> <<"pydantic">>
    [] m = "fred"          -> <<"fredapi", "pydantic">>
    [] OTHER               -> <<>>

\* the environment variable a unit's validate_environment() looks at
Prerequisite(m) ==
  CASE m = "news_api"      -> "NEWS_API_KEY"
    [] m = "fred"          -> "FRED_API_KEY"
    [] m = "time_tools_v2" -> "TZDATA"
    [] OTHER               -> "NONE"

EnvVars == {"FRED_API_KEY", "TZDATA"}

\* What a unit does when it is processed: "import_error" (resolution
\* raises), "no_adapt" (no BaseTool subclass, no legacy convention), "ok"
\* (nothing raises), or the name of the step that raises.
Hooks(m) ==
  {"import_error", "no_adapt", "ok", "initialize", "get_tools", "bind",
   "get_dependencies"}
  \cup (IF IsLegacy(m) THEN {} ELSE {"ctor", "validate_environment", "get_name"})

Unknown == "unknown"

\* str(e) of the exception a step of unit m raises
ErrorMessage(m, h) == h \o " failed in " \o m

ValidationDiagnostic == "Failed environment validation"

\* ------------------------------------------------------------------------
\* Configuration (config_loader.py)
\* ------------------------------------------------------------------------

None == [None |-> TRUE]

IsNone(c) == "None" \in DOMAIN c

\* Python truthiness of a configuration: None and {} are false
Truthy(c) == ~IsNone(c) /\ DOMAIN c # {}

EmptyMap == [x \in {} |-> TRUE]

DEFAULT_CONFIG ==
  [enabled_tools |->
     [filesystem |-> TRUE, time_tools |-> TRUE, sequential_thinking |-> TRUE,
      brave_search |-> TRUE, browserbase |-> TRUE, worldbank |-> TRUE,
      news_api |-> TRUE, ppt |-> TRUE, data_analysis |-> TRUE,
      document_management |-> TRUE, yfinance |-> TRUE, shopify |-> FALSE,
      linkedin |-> FALSE, salesforce |-> FALSE, outlook |-> FALSE],
   tool_config |->
     [brave_search |-> [rate_limit |-> "100", max_results |-> "10", api_key |-> ""],
      filesystem |-> [allowed_directories |-> "~/documents,~/downloads",
                      allow_file_deletion |-> "False"]]]

\* the value load_config returns when the file is missing or unreadable
EmptyConfig == [enabled_tools |-> EmptyMap, tool_config |-> EmptyMap]

\* variant: a unit counts as enabled as soon as enabled_tools mentions it
is_tool_enabled_if_mentioned(c, tool_name) ==
  IF ~Truthy(c) THEN FALSE
  ELSE IF "enabled_tools" \notin DOMAIN c \/ DOMAIN c.enabled_tools = {}
       THEN TRUE
  ELSE tool_name \in DOMAIN c.enabled_tools

is_tool_enabled(c, tool_name) ==
  IF ~Truthy(c) THEN FALSE
  ELSE IF "enabled_tools" \notin DOMAIN c \/ DOMAIN c.enabled_tools = {}
       THEN TRUE
  ELSE IF tool_name \in DOMAIN c.enabled_tools
       THEN c.enabled_tools[tool_name]
       ELSE FALSE

\* the outcome of an expression that raises
Raise == [Raise |-> TRUE]

\* get_tool_config(config, tool_name): a tool_config section that is None
\* has no .get
get_tool_config(c, tool_name) ==
  IF ~Truthy(c) THEN EmptyMap
  ELSE IF "tool_config" \notin DOMAIN c THEN EmptyMap
  ELSE IF IsNone(c.tool_config) THEN Raise
  ELSE IF tool_name \in DOMAIN c.tool_config
       THEN c.tool_config[tool_name]
       ELSE EmptyMap

\* variant: {**tool_config, **init_kwargs}
MergeKwargsGlobalFirst(kwargs, tc) ==
  IF tc = Raise \/ IsNone(tc) THEN Raise
  ELSE [k \in DOMAIN kwargs \cup DOMAIN tc |->
          IF k \in DOMAIN kwargs THEN kwargs[k] ELSE tc[k]]

\* {**init_kwargs, **tool_config}: the right operand must be a mapping
MergeKwargs(kwargs, tc) ==
  IF tc = Raise \/ IsNone(tc) THEN Raise
  ELSE [k \in DOMAIN kwargs \cup DOMAIN tc |->
          IF k \in DOMAIN tc THEN tc[k] ELSE kwargs[k]]

\* enablement mappings over the discovered units
EnabledMaps ==
  UNION {[S -> BOOLEAN] : S \in SUBSET Modules}

AllEnabled == [m \in Modules |-> TRUE]

\* tool_config sections: well formed, a null entry, a null section
ToolConfigs ==
  {[fred |-> [api_key |-> "k1", timeout |-> "5"]],
   [time_tools_v2 |-> None],
   None}

\* configurations a caller may hand to register_all_tools
Configs ==
  {None, EmptyMap, [tool_config |-> EmptyMap]}
  \cup {[enabled_tools |-> e, tool_config |-> EmptyMap] : e \in EnabledMaps}
  \cup {[enabled_tools |-> [filesystem |-> TRUE], tool_config |-> EmptyMap]}
  \cup {[tool_config |-> tc] : tc \in ToolConfigs}
  \cup {[enabled_tools |-> AllEnabled, tool_config |-> tc] : tc \in ToolConfigs}

\* contents of config.yaml when the file exists
ConfigFiles == {c \in Configs : ~IsNone(c)}


\* ------------------------------------------------------------------------
\* State
\* ------------------------------------------------------------------------

VARIABLES
  config,        \* the configuration handed to register_all_tools
  entry,         \* how the configuration was obtained: "server" or "library"
  unconfigured,  \* the server found no configuration file at start-up
  env,           \* environment variables that are set
  hook,          \* what each unit does when processed (Unknown until then)
  pc,            \* "boot", "ready", "running", "done", "raised", "stopped"
  idx,           \* position of the loop of register_all_tools
  pass,          \* number of passes started
  tools,         \* registry.tools: get_name() -> unit of the stored instance
  failed_tools,  \* registry.failed_tools: key -> diagnostic
  failed_by,     \* history: key of failed_tools -> unit that wrote it
  bound,         \* host runtime: operation name -> unit that bound it last
  dependencies,  \* mcp.dependencies
  results,       \* the dictionary register_all_tools is building
  calls,         \* history: unit -> steps ever invoked on it
  trace,         \* history: unit -> steps of its most recent attempt
  queried,       \* the last answer of is_tool_enabled to a direct caller
  resources,     \* host runtime: resource path -> unit it was bound for
  previous_run,  \* what the run before left, when nothing changed since
  shutdown,      \* what registry.cleanup() did
  status,        \* the last value get_status() returned
  passed,        \* the keyword arguments each unit's initialize was given
  \* one LegacyToolWrapper on its own
  legacy_module, \* the wrapped unit: its accessors and its initialize
  legacy_kwargs, \* the keyword options given to initialize
  legacy_pc,     \* "off", "new", "forwarded", "returned", "raised",
                 \* "initialized", "probed"
  legacy_log,    \* calls made on the wrapped unit, in order
  initialized,   \* BaseTool.initialized of the wrapper
  legacy_tools,  \* what get_tools() of the wrapper returned
  \* one MCPToolKitSDK and the client behind it
  sdk_cache,     \* self._cache: cache key -> [data, timestamp]
  cache_ttl,     \* self.cache_ttl
  retry_count,   \* self.retry_count
  handler_raises, \* the events whose handler raises
  clock,         \* time.time()
  sdk_call,      \* the call_tool in progress or returned last
  middleware,    \* self._middleware
  batch          \* the batch_call or batch_call_async made last

vars == <<config, entry, unconfigured, env, hook, pc, idx, pass, tools,
          failed_tools, failed_by, bound, dependencies, results, calls, trace,
          queried, resources, previous_run, shutdown, status, passed,
          legacy_module, legacy_kwargs, legacy_pc, legacy_log,
          initialized, legacy_tools, sdk_cache, cache_ttl, retry_count,
          handler_raises, clock, sdk_call, middleware, batch>>

sdkvars == <<sdk_cache, cache_ttl, retry_count, handler_raises, clock,
             sdk_call, middleware, batch>>

\* what the constructor, on() and add_middleware() set
sdkconf == <<cache_ttl, retry_count, handler_raises, middleware>>

registryvars == <<config, entry, unconfigured, env, hook, pc, idx, pass, tools,
                  failed_tools, failed_by, bound, dependencies, results, calls,
                  trace, queried, resources, previous_run, shutdown, status,
                  passed>>

legacyvars == <<legacy_module, legacy_kwargs, legacy_pc, legacy_log,
                initialized, legacy_tools>>

\* dict[key] = value
Put(f, k, v) == [x \in DOMAIN f \cup {k} |-> IF x = k THEN v ELSE f[x]]

Range(s) == {s[i] : i \in 1..Len(s)}

\* ------------------------------------------------------------------------
\* ToolRegistry, as functions of the registry record r
\*   r.tools, r.failed_tools, r.failed_by, r.bound, r.dependencies,
\*   r.steps (steps invoked in this attempt), r.ok (the return value)
\* ------------------------------------------------------------------------

\* initialize was not called
NotPassed == [NotPassed |-> TRUE]

Registry ==
  [tools |-> tools, failed_tools |-> failed_tools, failed_by |-> failed_by,
   bound |-> bound, dependencies |-> dependencies, steps |-> <<>>, ok |-> FALSE,
   kwargs |-> EmptyMap, passed |-> NotPassed]

Call(r, s) == [r EXCEPT !.steps = Append(@, s)]

\* self.failed_tools[key] = msg; return False / None
RecordFailure(r, key, msg, m) ==
  [r EXCEPT !.failed_tools = Put(@, key, msg),
            !.failed_by = Put(@, key, m),
            !.ok = FALSE]

\* BaseTool.validate_environment (True unless overridden) and
\* LegacyToolWrapper.validate_environment
validate_environment(m, e) ==
  IF IsLegacy(m)
  THEN CASE m = "news_api"  -> "NEWS_API_KEY" \in e
         [] m = "fred"      -> "FRED_API_KEY" \in e
         [] m = "worldbank" -> TRUE
         [] OTHER           -> TRUE
  ELSE Prerequisite(m) \in e

\* variant: the except clause returns None without recording the error
load_tool_module_swallowing(r, m, h) ==
  LET r1 == Call(r, "import") IN
  IF h \in {"import_error", "no_adapt"}
  THEN [r1 EXCEPT !.ok = FALSE]
  ELSE [r1 EXCEPT !.ok = TRUE]

\* variant: a unit with nothing to adapt is recorded as a failure
load_tool_module_strict(r, m, h) ==
  LET r1 == Call(r, "import") IN
  IF h = "import_error"
  THEN RecordFailure(r1, m, ErrorMessage(m, h), m)
  ELSE IF h = "no_adapt"
  THEN RecordFailure(r1, m, "No tool class found", m)
  ELSE [r1 EXCEPT !.ok = TRUE]

\* load_tool_module: the registry after the call; r.ok says whether a tool
\* class was returned
load_tool_module(r, m, h) ==
  LET r1 == Call(r, "import") IN
  IF h = "import_error"
  THEN RecordFailure(r1, m, ErrorMessage(m, h), m)
  ELSE IF h = "no_adapt"
  THEN [r1 EXCEPT !.ok = FALSE]
  ELSE [r1 EXCEPT !.ok = TRUE]

\* the except clause of register_tool
ExceptClause(r, m, h) == RecordFailure(r, ClassName(m), ErrorMessage(m, h), m)

\* variant: the loop stops after the first operation
BindFirstOperation(r, m, ops, h) ==
  IF ops = <<>> THEN [r EXCEPT !.ok = TRUE]
  ELSE [Call(r, "bind") EXCEPT !.bound = Put(@, Head(ops), m), !.ok = TRUE]

\* for tool_name, tool_func in tool_functions.items(): self.mcp.tool(...)
\* a unit whose binding raises does so on its last operation
RECURSIVE BindOperations(_, _, _, _)
BindOperations(r, m, ops, h) ==
  IF ops = <<>> THEN [r EXCEPT !.ok = TRUE]
  ELSE LET r1 == Call(r, "bind") IN
       IF h = "bind" /\ Len(ops) = 1
       THEN [r1 EXCEPT !.ok = FALSE]
       ELSE BindOperations([r1 EXCEPT !.bound = Put(@, Head(ops), m)],
                           m, Tail(ops), h)

\* variant: a name that is already in the table is refused
StoreInstanceOnce(r, m) ==
  IF GetName(m) \in DOMAIN r.tools
  THEN RecordFailure(r, GetName(m), "already registered", m)
  ELSE [r EXCEPT !.tools = Put(@, GetName(m), m), !.ok = TRUE]

\* self.tools[tool.get_name()] = tool
StoreInstance(r, m) == [r EXCEPT !.tools = Put(@, GetName(m), m), !.ok = TRUE]

\* self.mcp.dependencies.extend(dependencies)
ExtendDependencies(r, m) ==
  [r EXCEPT !.dependencies = @ \o GetDependencies(m)]

\* variant: the validation failure is filed under the class name
ValidationFailedByClass(r, m, h) ==
  LET r1 == Call(r, "get_name") IN
  IF h = "get_name" THEN ExceptClause(r1, m, h)
  ELSE RecordFailure(r1, ClassName(m), ValidationDiagnostic, m)

\* if not tool.validate_environment(): the warning and the key both call
\* tool.get_name(); then failed_tools[name] = "Failed environment validation"
ValidationFailed(r, m, h) ==
  LET r1 == Call(r, "get_name") IN
  IF h = "get_name" THEN ExceptClause(r1, m, h)
  ELSE RecordFailure(r1, GetName(m), ValidationDiagnostic, m)

\* tool.initialize(**init_kwargs)
CallInitialize(r) == [Call(r, "initialize") EXCEPT !.passed = r.kwargs]

register_tool(r, m, h, e) ==
  LET r1 == Call(r, "ctor") IN
  IF h = "ctor" THEN ExceptClause(r1, m, h) ELSE
  LET r2 == Call(r1, "validate_environment") IN
  IF h = "validate_environment" THEN ExceptClause(r2, m, h) ELSE
  IF ~validate_environment(m, e) THEN ValidationFailed(r2, m, h) ELSE
  LET r4 == CallInitialize(r2) IN
  IF h = "initialize" THEN ExceptClause(r4, m, h) ELSE
  LET r5 == Call(r4, "get_tools") IN
  IF h = "get_tools" THEN ExceptClause(r5, m, h) ELSE
  LET r6 == BindOperations(r5, m, GetTools(m), h) IN
  IF ~r6.ok THEN ExceptClause(r6, m, h) ELSE
  LET r7 == Call(r6, "get_dependencies") IN
  IF h = "get_dependencies" THEN ExceptClause(r7, m, h) ELSE
  LET r8 == Call(ExtendDependencies(r7, m), "get_name") IN
  IF h = "get_name" THEN ExceptClause(r8, m, h) ELSE
  StoreInstance(r8, m)

\* sum(len(tool.get_tools()) for tool in self.tools.values())
RECURSIVE SumOperations(_)
SumOperations(names) ==
  IF names = {} THEN 0
  ELSE LET n == CHOOSE x \in names : TRUE
       IN Len(GetTools(tools[n])) + SumOperations(names \ {n})

\* get_status()
get_status ==
  [registered |-> DOMAIN tools,
   failed |-> failed_tools,
   total_tools |-> SumOperations(DOMAIN tools),
   total_dependencies |-> Cardinality(Range(dependencies))]


\* ------------------------------------------------------------------------
\* Actions
\* ------------------------------------------------------------------------

NoQuery == [tool |-> "", enabled |-> FALSE]

\* no run of register_all_tools came before, or something changed since
NoRun == [registered |-> {}, failed |-> EmptyMap, bound |-> EmptyMap, none |-> TRUE]

\* cleanup() has not been called
NoShutdown == [order |-> <<>>, raising |-> {}, cleaned |-> <<>>, logged |-> <<>>,
               propagated |-> FALSE, called |-> FALSE]

\* get_status() has not been called since the last run
NoStatus == [registered |-> {}, failed |-> EmptyMap, total_tools |-> -1,
             total_dependencies |-> -1]

NoLegacyModule ==
  [named |-> Absent, stripped |-> Absent, generic |-> Absent,
   init_params |-> {}, init_raises |-> FALSE]

\* a dict without the key 'error'
NoKey == "<no key>"

\* the client was not called
NoResponse == [kind |-> "none", valid |-> FALSE, error |-> NoKey, value |-> ""]

\* no call_tool was made
NoCall ==
  [phase |-> "idle", tool |-> "", params |-> [path |-> ""],
   sent |-> [path |-> ""], cache |-> FALSE,
   retry |-> 0, attempt |-> 0, response |-> NoResponse, steps |-> <<>>,
   logged |-> 0, last_error |-> None, result |-> None]

\* ToolRegistry(mcp) with FastMCP(dependencies=[])
RegistryInit ==
  /\ config = None
  /\ entry = "none"
  /\ unconfigured = FALSE
  /\ hook = [m \in Modules |-> Unknown]
  /\ pc = "boot"
  /\ idx = 0
  /\ pass = 0
  /\ tools = EmptyMap
  /\ failed_tools = EmptyMap
  /\ failed_by = EmptyMap
  /\ bound = EmptyMap
  /\ dependencies = <<>>
  /\ results = EmptyMap
  /\ calls = [m \in Modules |-> {}]
  /\ trace = [m \in Modules |-> <<>>]
  /\ queried = NoQuery
  /\ resources = EmptyMap
  /\ previous_run = NoRun
  /\ shutdown = NoShutdown
  /\ status = NoStatus
  /\ passed = [m \in Modules |-> NotPassed]

\* no legacy wrapper is looked at on its own
LegacyOff ==
  /\ legacy_module = NoLegacyModule
  /\ legacy_kwargs = EmptyMap
  /\ legacy_pc = "off"
  /\ legacy_log = <<>>
  /\ initialized = FALSE
  /\ legacy_tools = <<>>

\* no SDK object is looked at
\* no batch was made
NoBatch ==
  [mode |-> "none", phase |-> "none", ops |-> <<>>, calls |-> <<>>,
   results |-> <<>>]

SdkOff ==
  /\ sdk_cache = EmptyMap
  /\ cache_ttl = 0
  /\ retry_count = 0
  /\ handler_raises = {}
  /\ clock = 0
  /\ sdk_call = NoCall
  /\ middleware = {}
  /\ batch = NoBatch

Init ==
  /\ RegistryInit
  /\ env \in SUBSET EnvVars
  /\ LegacyOff
  /\ SdkOff

Missing == [Missing |-> TRUE]

\* load_config(): the default settings when there is no file
load_config(file) == IF file = Missing THEN EmptyConfig ELSE file

\* config.get("enabled_tools") is truthy
HasEnabledTools(c) ==
  "enabled_tools" \in DOMAIN c /\ DOMAIN c.enabled_tools # {}

\* create_default_config(): the file after the call
create_default_config(file, writable) ==
  IF file = Missing /\ writable THEN DEFAULT_CONFIG ELSE file

\* module level of mcp_server_v2: config = load_config(); if it enables
\* nothing, create the default file and load again
ServerLoadConfig ==
  /\ pc = "boot"
  /\ \E file \in ConfigFiles \cup {Missing}, writable \in BOOLEAN :
       LET first == load_config(file)
       IN /\ config' = IF HasEnabledTools(first) THEN first
                       ELSE load_config(create_default_config(file, writable))
          /\ unconfigured' = (file = Missing)
  /\ entry' = "server"
  /\ pc' = "ready"
  /\ UNCHANGED <<env, hook, idx, pass, tools, failed_tools, failed_by, bound,
                 dependencies, results, calls, trace, queried>>
  /\ UNCHANGED <<resources, previous_run, shutdown, status, passed>>
  /\ UNCHANGED <<legacyvars, sdkvars>>

\* a caller that constructs a ToolRegistry and supplies a configuration
LibraryConfig ==
  /\ pc = "boot"
  /\ config' \in Configs
  /\ entry' = "library"
  /\ pc' = "ready"
  /\ UNCHANGED <<unconfigured, env, hook, idx, pass, tools, failed_tools,
                 failed_by, bound, dependencies, results, calls, trace, queried>>
  /\ UNCHANGED <<resources, previous_run, shutdown, status, passed>>
  /\ UNCHANGED <<legacyvars, sdkvars>>

\* a caller asks is_tool_enabled(config, tool_name) directly
QueryEnabled ==
  /\ pc = "ready"
  /\ pass = 0
  /\ queried = NoQuery
  /\ \E m \in Modules :
       queried' = [tool |-> m, enabled |-> is_tool_enabled(config, m)]
  /\ UNCHANGED <<config, entry, unconfigured, env, hook, pc, idx, pass, tools,
                 failed_tools, failed_by, bound, dependencies, results, calls,
                 trace>>
  /\ UNCHANGED <<resources, previous_run, shutdown, status, passed>>
  /\ UNCHANGED <<legacyvars, sdkvars>>

\* register_all_tools is called: results = {}, the directory is scanned
StartPass ==
  /\ pc \in {"ready", "done"}
  /\ pass < MaxPasses
  /\ pass' = pass + 1
  /\ pc' = "running"
  /\ idx' = 1
  /\ results' = EmptyMap
  /\ trace' = [m \in Modules |-> <<>>]
  /\ queried' = NoQuery
  /\ previous_run' = IF pc = "done"
                     THEN [registered |-> DOMAIN tools, failed |-> failed_tools,
                           bound |-> bound, none |-> FALSE]
                     ELSE NoRun
  /\ status' = NoStatus
  /\ UNCHANGED <<config, entry, unconfigured, env, hook, tools, failed_tools,
                 failed_by, bound, dependencies, calls>>
  /\ passed' = [m \in Modules |-> NotPassed]
  /\ UNCHANGED <<resources, shutdown>>
  /\ UNCHANGED <<legacyvars, sdkvars>>

InLoop == pc = "running" /\ idx \in 1..Len(discover_tools)

Current == discover_tools[idx]

\* variant: no unit is held back by the configuration
GateOpen(c, m) == TRUE

\* if config and not is_tool_enabled(config, module_name)
Gate(c, m) == ~(Truthy(c) /\ ~is_tool_enabled(c, m))

HookChoice(m) == IF hook[m] = Unknown THEN Hooks(m) ELSE {hook[m]}

\* the keyword arguments the caller passes to register_all_tools:
\* initialize_tools passes filesystem=..., other callers a timeout
InitKwargs ==
  IF entry = "server" THEN [filesystem |-> "allowed_dirs"]
  ELSE [timeout |-> "30"]

\* merged_kwargs of the iteration for unit m
MergedKwargs(m) == MergeKwargs(InitKwargs, get_tool_config(config, m))

\* the registry after one iteration of the loop for a unit that passed the
\* gate: load_tool_module, then register_tool if a class came back
Iteration(m, h) ==
  LET r1 == load_tool_module(Call(Registry, "gate"), m, h)
  IN IF r1.ok
     THEN register_tool([r1 EXCEPT !.kwargs = MergedKwargs(m)], m, h, env)
     ELSE r1

\* variant: only successful units are entered in results
RecordResultIfSuccess(res, m, ok) == IF ok THEN Put(res, m, ok) ELSE res

\* results[module_name] = success
RecordResult(res, m, ok) == Put(res, m, ok)

Commit(m, r) ==
  /\ tools' = r.tools
  /\ failed_tools' = r.failed_tools
  /\ failed_by' = r.failed_by
  /\ bound' = r.bound
  /\ dependencies' = r.dependencies
  /\ results' = RecordResult(results, m, r.ok)
  /\ calls' = [calls EXCEPT ![m] = @ \cup Range(r.steps)]
  /\ trace' = [trace EXCEPT ![m] = r.steps]
  /\ passed' = [passed EXCEPT ![m] = r.passed]
  /\ idx' = idx + 1

\* the unit is disabled in the configuration: results[m] = False; continue
SkipDisabled ==
  /\ InLoop
  /\ ~Gate(config, Current)
  /\ Commit(Current, Call(Registry, "gate"))
  /\ UNCHANGED <<config, entry, unconfigured, env, hook, pc, pass, queried>>
  /\ UNCHANGED <<resources, previous_run, shutdown, status>>
  /\ UNCHANGED <<legacyvars, sdkvars>>

\* load_tool_module returns None: results[m] = False
LoadRejected ==
  /\ InLoop
  /\ Gate(config, Current)
  /\ \E h \in HookChoice(Current) \cap {"import_error", "no_adapt"} :
       /\ hook' = [hook EXCEPT ![Current] = h]
       /\ Commit(Current, Iteration(Current, h))
  /\ UNCHANGED <<config, entry, unconfigured, env, pc, pass, queried>>
  /\ UNCHANGED <<resources, previous_run, shutdown, status>>
  /\ UNCHANGED <<legacyvars, sdkvars>>

\* load_tool_module returns a class: results[m] = register_tool(...)
RegisterModule ==
  /\ InLoop
  /\ Gate(config, Current)
  /\ MergedKwargs(Current) # Raise
  /\ \E h \in HookChoice(Current) \ {"import_error", "no_adapt"} :
       /\ hook' = [hook EXCEPT ![Current] = h]
       /\ Commit(Current, Iteration(Current, h))
  /\ UNCHANGED <<config, entry, unconfigured, env, pc, pass, queried>>
  /\ UNCHANGED <<resources, previous_run, shutdown, status>>
  /\ UNCHANGED <<legacyvars, sdkvars>>

\* load_tool_module returns a class and get_tool_config or the merge of
\* the keyword arguments raises: the exception leaves register_all_tools
PassRaises ==
  /\ InLoop
  /\ Gate(config, Current)
  /\ MergedKwargs(Current) = Raise
  /\ \E h \in HookChoice(Current) \ {"import_error", "no_adapt"} :
       /\ hook' = [hook EXCEPT ![Current] = h]
       /\ calls' = [calls EXCEPT ![Current] = @ \cup {"gate", "import"}]
       /\ trace' = [trace EXCEPT ![Current] = <<"gate", "import">>]
  /\ pc' = "raised"
  /\ UNCHANGED <<config, entry, unconfigured, env, idx, pass, tools,
                 failed_tools, failed_by, bound, dependencies, results, queried>>
  /\ UNCHANGED <<resources, previous_run, shutdown, status, passed>>
  /\ UNCHANGED <<legacyvars, sdkvars>>

\* the loop is over: return results
FinishPass ==
  /\ pc = "running"
  /\ idx > Len(discover_tools)
  /\ pc' = "done"
  /\ UNCHANGED <<config, entry, unconfigured, env, hook, idx, pass, tools,
                 failed_tools, failed_by, bound, dependencies, results, calls,
                 trace, queried>>
  /\ UNCHANGED <<resources, previous_run, shutdown, status, passed>>
  /\ UNCHANGED <<legacyvars, sdkvars>>

\* between two passes an environment variable is set or unset
ChangeEnvironment ==
  /\ pc = "done"
  /\ pass < MaxPasses
  /\ \E v \in EnvVars :
       env' = IF v \in env THEN env \ {v} ELSE env \cup {v}
  /\ pc' = "ready"
  /\ UNCHANGED <<config, entry, unconfigured, hook, idx, pass, tools,
                 failed_tools, failed_by, bound, dependencies, results, calls,
                 trace, queried>>
  /\ UNCHANGED <<resources, previous_run, shutdown, status, passed>>
  /\ UNCHANGED <<legacyvars, sdkvars>>

\* tools.values(): the names of the live table in insertion order
ValuesOrder ==
  LET live == SelectSeq(discover_tools,
                        LAMBDA m : \E n \in DOMAIN tools : tools[n] = m)
  IN [i \in 1..Len(live) |-> GetName(live[i])]

\* variant: no try/except around tool.cleanup()
RECURSIVE CleanupLoopNoCatch(_, _, _)
CleanupLoopNoCatch(order, raising, acc) ==
  IF order = <<>> THEN acc
  ELSE LET n == Head(order)
           acc1 == [acc EXCEPT !.cleaned = Append(@, n)]
       IN IF n \in raising
          THEN [acc1 EXCEPT !.propagated = TRUE]
          ELSE CleanupLoopNoCatch(Tail(order), raising, acc1)

\* for tool in self.tools.values(): try: tool.cleanup()
\* except Exception: logger.error(... tool.get_name() ...)
RECURSIVE CleanupLoop(_, _, _)
CleanupLoop(order, raising, acc) ==
  IF order = <<>> THEN acc
  ELSE LET n == Head(order)
           acc1 == [acc EXCEPT !.cleaned = Append(@, n)]
       IN IF n \in raising
          THEN CleanupLoop(Tail(order), raising,
                           [acc1 EXCEPT !.logged = Append(@, n)])
          ELSE CleanupLoop(Tail(order), raising, acc1)

\* main(): finally: registry.cleanup(); the cleanup hook of a unit with a
\* class of its own may raise, a legacy wrapper inherits BaseTool.cleanup
cleanup ==
  /\ pc \in {"done", "raised"}
  /\ \E raising \in SUBSET {n \in DOMAIN tools : ~IsLegacy(tools[n])} :
       shutdown' = CleanupLoop(ValuesOrder, raising,
                               [NoShutdown EXCEPT !.order = ValuesOrder,
                                                  !.raising = raising,
                                                  !.called = TRUE])
  /\ pc' = "stopped"
  /\ UNCHANGED <<config, entry, unconfigured, env, hook, idx, pass, tools,
                 failed_tools, failed_by, bound, dependencies, results, calls,
                 trace, queried, resources, previous_run, status, passed>>
  /\ UNCHANGED <<legacyvars, sdkvars>>

\* a caller asks get_status() between two runs
GetStatus ==
  /\ pc \in {"ready", "done", "raised"}
  /\ status = NoStatus
  /\ status' = get_status
  /\ UNCHANGED <<config, entry, unconfigured, env, hook, pc, idx, pass, tools,
                 failed_tools, failed_by, bound, dependencies, results, calls,
                 trace, queried, resources, previous_run, shutdown, passed>>
  /\ UNCHANGED <<legacyvars, sdkvars>>

Next ==
  \/ ServerLoadConfig
  \/ LibraryConfig
  \/ QueryEnabled
  \/ StartPass
  \/ SkipDisabled
  \/ LoadRejected
  \/ RegisterModule
  \/ PassRaises
  \/ FinishPass
  \/ ChangeEnvironment
  \/ cleanup
  \/ GetStatus

Spec == Init /\ [][Next]_vars

\* ------------------------------------------------------------------------
\* One LegacyToolWrapper: initialize(**kwargs), then get_tools()
\* ------------------------------------------------------------------------

\* what an accessor of a wrapped unit may be
AccessorValues == {Absent, <<>>, <<"list_items">>, <<"get_item", "put_item">>}

\* parameter names an initialize function may declare
ParamNames == {"mcp", "timeout", "api_key"}

\* keyword options a caller may supply
KwargValues == [timeout |-> "30", api_key |-> "k1", filesystem |-> "allowed_dirs"]

KwargBags == UNION {[S -> {"30", "k1", "allowed_dirs"}] : S \in SUBSET DOMAIN KwargValues}

InitLegacy ==
  /\ RegistryInit
  /\ env = {}
  /\ SdkOff
  /\ legacy_module \in [named : AccessorValues, stripped : AccessorValues,
                         generic : AccessorValues,
                         init_params : SUBSET ParamNames,
                         init_raises : BOOLEAN]
  /\ legacy_kwargs \in {b \in KwargBags : \A k \in DOMAIN b : b[k] = KwargValues[k]}
  /\ legacy_pc = "new"
  /\ legacy_log = <<>>
  /\ initialized = FALSE
  /\ legacy_tools = <<>>

\* if hasattr(self.module, 'set_external_mcp'): set_external_mcp(self.mcp)
LegacyForwardMcp ==
  /\ legacy_pc = "new"
  /\ legacy_log' = Append(legacy_log,
        [fn |-> "set_external_mcp", args |-> <<"mcp">>, kw |-> EmptyMap])
  /\ legacy_pc' = "forwarded"
  /\ UNCHANGED <<legacy_module, legacy_kwargs, initialized, legacy_tools>>
  /\ UNCHANGED <<registryvars, sdkvars>>

\* the call of the unit's initialize, by its signature; it returns or raises
LegacyCallInitialize ==
  /\ legacy_pc = "forwarded"
  /\ LET c == InitCall(legacy_module.init_params, legacy_kwargs)
     IN legacy_log' = Append(legacy_log,
          [fn |-> "initialize", args |-> c.args, kw |-> c.kw])
  /\ legacy_pc' = IF legacy_module.init_raises THEN "raised" ELSE "returned"
  /\ UNCHANGED <<legacy_module, legacy_kwargs, initialized, legacy_tools>>
  /\ UNCHANGED <<registryvars, sdkvars>>

\* super().initialize(**kwargs): self.initialized = True
LegacyMarkInitialized ==
  /\ legacy_pc = "returned"
  /\ initialized' = TRUE
  /\ legacy_pc' = "initialized"
  /\ UNCHANGED <<legacy_module, legacy_kwargs, legacy_log, legacy_tools>>
  /\ UNCHANGED <<registryvars, sdkvars>>

\* tool.get_tools() of the wrapper
LegacyProbeTools ==
  /\ legacy_pc = "initialized"
  /\ legacy_tools' = LegacyGetTools(legacy_module)
  /\ legacy_pc' = "probed"
  /\ UNCHANGED <<legacy_module, legacy_kwargs, legacy_log, initialized>>
  /\ UNCHANGED <<registryvars, sdkvars>>

NextLegacy ==
  \/ LegacyForwardMcp
  \/ LegacyCallInitialize
  \/ LegacyMarkInitialized
  \/ LegacyProbeTools

SpecLegacy == InitLegacy /\ [][NextLegacy]_vars

TypeOK ==
  /\ pc \in {"boot", "ready", "running", "done", "raised", "stopped"}
  /\ DOMAIN results \subseteq Modules
  /\ \A n \in DOMAIN tools : tools[n] \in Modules


\* ------------------------------------------------------------------------
\* MCPToolKitSDK.call_tool: cache, retries and events
\* ------------------------------------------------------------------------

\* what self.client.call_tool does on one attempt: it raises (error is the
\* message), or returns an object or a text; valid says whether the text
\* is JSON, error is the value under 'error' of the object or of the
\* document the text encodes
Responses ==
  {[kind |-> "raise",  valid |-> FALSE, error |-> "connection refused", value |-> ""],
   [kind |-> "object", valid |-> TRUE,  error |-> "denied",    value |-> ""],
   [kind |-> "text",   valid |-> TRUE,  error |-> NoKey,       value |-> "listing"],
   [kind |-> "text",   valid |-> TRUE,  error |-> "not found", value |-> ""],
   [kind |-> "text",   valid |-> FALSE, error |-> NoKey,       value |-> "plain words"]}

SdkTools == {"read_file"}

SdkParams == {[path |-> "a"], [path |-> "b"]}

SdkEvents == {"before_call", "after_call", "error"}

\* the middleware add_middleware() may have installed
Middlewares == {"normalise"}

\* retry is not among the options of the call
NoOption == -1

RetryOptions == {NoOption} \cup 0..MaxRetry

RetryCounts == {1}

CacheTtls == {1, 2}

\* json.dumps(params, sort_keys=True)
json_dumps(params) == "{\"path\": \"" \o params.path \o "\"}"

\* cache_key = f"{tool_name}:{json.dumps(params, sort_keys=True)}"
cache_key(tool_name, params) == tool_name \o ":" \o json_dumps(params)

\* data = json.loads(result) if isinstance(result, str) else result;
\* except json.JSONDecodeError: data = result
ParseResult(result) ==
  IF result.kind = "text" /\ result.valid
  THEN [result EXCEPT !.kind = "object"]
  ELSE result

\* the exception of one attempt, or None: the client raised, or the data
\* is a dict with the key 'error'
AttemptError(result) ==
  IF result.kind = "raise" THEN [str |-> result.error]
  ELSE LET data == ParseResult(result)
       IN IF data.kind = "object" /\ data.error # NoKey
          THEN [str |-> data.error]
          ELSE None

\* ToolResult(success, data, error=None, metadata=None)
ToolResult(success, data, error, metadata) ==
  [success |-> success, data |-> data, error |-> error, metadata |-> metadata]

\* variant: the 'error' event is not passed to its handlers
EmitEventNoError(c, event) ==
  IF event = "error" THEN c
  ELSE [c EXCEPT !.steps = Append(@, event),
                 !.logged = IF event \in handler_raises THEN @ + 1 ELSE @]

\* _emit_event: the handler of the event is called; what it raises is
\* caught and logged
EmitEvent(c, event) ==
  [c EXCEPT !.steps = Append(@, event),
            !.logged = IF event \in handler_raises THEN @ + 1 ELSE @]

\* variant: one attempt more than retry_count
InRangeInclusive(attempt, retry) == attempt <= retry

\* for attempt in range(retry_count)
InRange(attempt, retry) == attempt < retry

\* variant: the cache option of the call is not looked at
CacheHitAlways(store, key, use_cache, ttl, now) ==
  /\ key \in DOMAIN store
  /\ store[key].timestamp + ttl > now

\* if kwargs.get('cache', True) and cache_key in self._cache and
\* timestamp + self.cache_ttl > time.time()
CacheHit(store, key, use_cache, ttl, now) ==
  /\ use_cache
  /\ key \in DOMAIN store
  /\ store[key].timestamp + ttl > now

\* for middleware in self._middleware: params = middleware(tool_name,
\* params); the one middleware that may be installed rewrites the path
ApplyMiddleware(mw, params) ==
  IF mw = {} THEN params ELSE [params EXCEPT !.path = "a"]

\* call_tool(tool_name, params, cache=..., retry=...) up to the loop: the
\* cache is looked up, then the middleware is applied
BeginCall(tool_name, params, use_cache, option) ==
  LET key == cache_key(tool_name, params)
      c == [NoCall EXCEPT !.phase = "attempting", !.tool = tool_name,
                          !.params = params, !.sent = params,
                          !.cache = use_cache,
                          !.retry = IF option = NoOption THEN retry_count
                                    ELSE option]
  IN IF CacheHit(sdk_cache, key, use_cache, cache_ttl, clock)
     THEN [c EXCEPT !.phase = "returned",
                    !.result = ToolResult(TRUE, sdk_cache[key].data,
                                          None, {"cached"})]
     ELSE [c EXCEPT !.sent = ApplyMiddleware(middleware, params)]

\* one pass through the body of the loop: 'before_call', the client, then
\* 'after_call' and return, or except Exception: last_error
AttemptCall(c, result) ==
  LET c1 == EmitEvent(c, "before_call")
      c2 == [c1 EXCEPT !.steps = Append(@, "client"),
                       !.response = result,
                       !.attempt = @ + 1]
      e == AttemptError(result)
  IN IF e = None
     THEN [EmitEvent(c2, "after_call") EXCEPT
             !.phase = "returned",
             !.result = ToolResult(TRUE, ParseResult(result), None, {})]
     ELSE [c2 EXCEPT !.last_error = e]

\* variant: the result is stored whatever the cache option of the call
CacheStoreAlways(store, c, result, now) ==
  IF AttemptError(result) = None
  THEN Put(store, cache_key(c.tool, c.params),
           [data |-> ParseResult(result), timestamp |-> now,
            source |-> [tool |-> c.tool, params |-> c.params,
                        cache |-> c.cache, response |-> result]])
  ELSE store

\* if kwargs.get('cache', True): self._cache[cache_key] = (data,
\* time.time()), reached only when the attempt raised nothing; source
\* remembers the call and the response the entry was made from
CacheStore(store, c, result, now) ==
  IF AttemptError(result) = None /\ c.cache
  THEN Put(store, cache_key(c.tool, c.params),
           [data |-> ParseResult(result), timestamp |-> now,
            source |-> [tool |-> c.tool, params |-> c.params,
                        cache |-> c.cache, response |-> result]])
  ELSE store

\* after the loop: the 'error' event and
\* ToolResult(False, None, error=last_error)
GiveUp(c) ==
  [EmitEvent(c, "error") EXCEPT
     !.phase = "returned",
     !.result = ToolResult(FALSE, None, c.last_error, {})]

\* MCPToolKitSDK(retry_count=..., cache_ttl=...), handlers installed by
\* on(), middleware by add_middleware()
InitSDK ==
  /\ RegistryInit
  /\ env = {}
  /\ LegacyOff
  /\ sdk_cache = EmptyMap
  /\ cache_ttl \in CacheTtls
  /\ retry_count \in RetryCounts
  /\ handler_raises \in {{}, SdkEvents}
  /\ middleware \in SUBSET Middlewares
  /\ clock = 0
  /\ sdk_call = NoCall
  /\ batch = NoBatch

\* call_tool(tool_name, params, cache=..., retry=...) up to the loop
CallTool ==
  /\ sdk_call.phase # "attempting"
  /\ \E tool_name \in SdkTools, params \in SdkParams, use_cache \in BOOLEAN,
        option \in RetryOptions :
       sdk_call' = BeginCall(tool_name, params, use_cache, option)
  /\ UNCHANGED <<sdk_cache, clock, batch, sdkconf>>
  /\ UNCHANGED <<registryvars, legacyvars>>

\* one pass through the body of the loop
Attempt ==
  /\ sdk_call.phase = "attempting"
  /\ InRange(sdk_call.attempt, sdk_call.retry)
  /\ \E result \in Responses :
       /\ sdk_cache' = CacheStore(sdk_cache, sdk_call, result, clock)
       /\ sdk_call' = AttemptCall(sdk_call, result)
  /\ UNCHANGED <<clock, batch, sdkconf>>
  /\ UNCHANGED <<registryvars, legacyvars>>

\* after the loop
AllRetriesFailed ==
  /\ sdk_call.phase = "attempting"
  /\ ~InRange(sdk_call.attempt, sdk_call.retry)
  /\ sdk_call' = GiveUp(sdk_call)
  /\ UNCHANGED <<sdk_cache, clock, batch, sdkconf>>
  /\ UNCHANGED <<registryvars, legacyvars>>

\* time passes
Tick ==
  /\ clock < MaxTime
  /\ clock' = clock + 1
  /\ UNCHANGED <<sdk_cache, sdk_call, batch, sdkconf>>
  /\ UNCHANGED <<registryvars, legacyvars>>

NextSDK ==
  \/ CallTool
  \/ Attempt
  \/ AllRetriesFailed
  \/ Tick

SpecSDK == InitSDK /\ [][NextSDK]_vars

\* ------------------------------------------------------------------------
\* MCPToolKitSDK.batch_call and batch_call_async
\* ------------------------------------------------------------------------

\* op.get('options', {})
BatchOptions == {EmptyMap, [cache |-> FALSE]}

\* {'tool': ..., 'params': ..., 'options': ...}
BatchOps ==
  [tool : SdkTools, params : SdkParams, options : BatchOptions]

\* kwargs.get('cache', True)
CacheOption(options) ==
  IF "cache" \in DOMAIN options THEN options.cache ELSE TRUE

\* kwargs.get('retry', self.retry_count)
RetryOption(options) ==
  IF "retry" \in DOMAIN options THEN options.retry ELSE NoOption

\* a new SDK, on which one batch is made: its calls share the cache
InitBatch ==
  /\ RegistryInit
  /\ env = {}
  /\ LegacyOff
  /\ sdk_cache = EmptyMap
  /\ cache_ttl \in CacheTtls
  /\ retry_count \in RetryCounts
  /\ handler_raises = {}
  /\ middleware \in SUBSET Middlewares
  /\ clock = 0
  /\ sdk_call = NoCall
  /\ batch = NoBatch

\* batch_call(operations) begins: results = []
BatchCall ==
  /\ batch = NoBatch
  /\ \E n \in 1..MaxBatch :
       \E ops \in [1..n -> BatchOps] :
         batch' = [mode |-> "sync", phase |-> "running", ops |-> ops,
                   calls |-> [i \in 1..n |-> NoCall], results |-> <<>>]
  /\ UNCHANGED <<sdk_cache, clock, sdk_call, sdkconf>>
  /\ UNCHANGED <<registryvars, legacyvars>>

\* loop.run_in_executor(self._executor, self.call_tool, tool_name, params,
\* **kwargs): run_in_executor(executor, func, *args) accepts no keyword
\* argument, so the coroutine raises TypeError unless kwargs is empty
CallToolAsync(op) ==
  IF op.options = EmptyMap THEN NoCall
  ELSE [NoCall EXCEPT !.phase = "typeerror"]

\* batch_call_async(operations) begins: one coroutine per operation
BatchCallAsync ==
  /\ batch = NoBatch
  /\ \E n \in 1..MaxBatch :
       \E ops \in [1..n -> BatchOps] :
         batch' = [mode |-> "async", phase |-> "running", ops |-> ops,
                   calls |-> [i \in 1..n |-> CallToolAsync(ops[i])],
                   results |-> <<>>]
  /\ UNCHANGED <<sdk_cache, clock, sdk_call, sdkconf>>
  /\ UNCHANGED <<registryvars, legacyvars>>

\* the calls that may take a step: batch_call runs them one after the
\* other; the threads of batch_call_async run in any order, and go on
\* after gather has raised
MayRun(i) ==
  /\ i \in DOMAIN batch.calls
  /\ \/ /\ batch.mode = "sync"
        /\ batch.phase = "running"
        /\ \A j \in 1..(i - 1) : batch.calls[j].phase = "returned"
     \/ /\ batch.mode = "async"
        /\ batch.phase \in {"running", "raised"}

\* self.call_tool(op['tool'], op['params'], **op.get('options', {})) up to
\* the loop
BatchBegin ==
  /\ \E i \in DOMAIN batch.calls :
       /\ MayRun(i)
       /\ batch.calls[i].phase = "idle"
       /\ batch' = [batch EXCEPT !.calls[i] =
                      BeginCall(batch.ops[i].tool, batch.ops[i].params,
                                CacheOption(batch.ops[i].options),
                                RetryOption(batch.ops[i].options))]
  /\ UNCHANGED <<sdk_cache, clock, sdk_call, sdkconf>>
  /\ UNCHANGED <<registryvars, legacyvars>>

\* one pass through the body of the loop of one call of the batch
BatchAttempt ==
  /\ \E i \in DOMAIN batch.calls :
       /\ MayRun(i)
       /\ batch.calls[i].phase = "attempting"
       /\ InRange(batch.calls[i].attempt, batch.calls[i].retry)
       /\ \E result \in Responses :
            /\ sdk_cache' = CacheStore(sdk_cache, batch.calls[i], result, clock)
            /\ batch' = [batch EXCEPT !.calls[i] = AttemptCall(@, result)]
  /\ UNCHANGED <<clock, sdk_call, sdkconf>>
  /\ UNCHANGED <<registryvars, legacyvars>>

\* one call of the batch after its loop
BatchGiveUp ==
  /\ \E i \in DOMAIN batch.calls :
       /\ MayRun(i)
       /\ batch.calls[i].phase = "attempting"
       /\ ~InRange(batch.calls[i].attempt, batch.calls[i].retry)
       /\ batch' = [batch EXCEPT !.calls[i] = GiveUp(@)]
  /\ UNCHANGED <<sdk_cache, clock, sdk_call, sdkconf>>
  /\ UNCHANGED <<registryvars, legacyvars>>

\* return results / return await asyncio.gather(*tasks): the results in
\* the order of the operations
BatchReturn ==
  /\ batch.phase = "running"
  /\ \A i \in DOMAIN batch.calls : batch.calls[i].phase = "returned"
  /\ batch' = [batch EXCEPT
                 !.phase = "returned",
                 !.results = [i \in DOMAIN batch.calls |-> batch.calls[i].result]]
  /\ UNCHANGED <<sdk_cache, clock, sdk_call, sdkconf>>
  /\ UNCHANGED <<registryvars, legacyvars>>

\* asyncio.gather(*tasks) without return_exceptions: the first exception
\* of a task is raised to the caller of batch_call_async
BatchRaise ==
  /\ batch.phase = "running"
  /\ \E i \in DOMAIN batch.calls : batch.calls[i].phase = "typeerror"
  /\ batch' = [batch EXCEPT !.phase = "raised"]
  /\ UNCHANGED <<sdk_cache, clock, sdk_call, sdkconf>>
  /\ UNCHANGED <<registryvars, legacyvars>>

NextBatch ==
  \/ BatchCall
  \/ BatchCallAsync
  \/ BatchBegin
  \/ BatchAttempt
  \/ BatchGiveUp
  \/ BatchReturn
  \/ BatchRaise

SpecBatch == InitBatch /\ [][NextBatch]_vars

\* ------------------------------------------------------------------------
\* Vocabulary of the properties
\* ------------------------------------------------------------------------

\* register_all_tools has returned
Done == pc = "done"

\* the unit passed the gate in the most recent pass
Attempted(m) == "import" \in Range(trace[m])

\* step s was invoked on the unit in the most recent pass
Invoked(m, s) == s \in Range(trace[m])

\* every operation name of the unit is bound in the host runtime
AllBound(m) == Range(GetTools(m)) \subseteq DOMAIN bound

\* operation names whose current binding was made for the unit
OwnBindings(m) == {o \in DOMAIN bound : bound[o] = m}

\* the unit comes earlier in the processing order
Position(m) == CHOOSE i \in 1..Len(discover_tools) : discover_tools[i] = m

Before(a, b) == Position(a) < Position(b)

\* failed_tools holds diagnostic d under one of the names of the unit
FailureCarries(m, d) ==
  \E k \in {m, ClassName(m), GetName(m)} \cap DOMAIN failed_tools :
    failed_tools[k] = d

\* registry.tools holds an instance of the unit
HasInstance(m) == \E n \in DOMAIN tools : tools[n] = m

\* ------------------------------------------------------------------------
\* C1  If the initialization hook of unit A raises and a valid, enabled
\* unit B is processed after A, then at the end of the pass failed_tools has
\* an entry for A carrying the message of the exception, registry.tools
\* holds no instance of A, and B is a key of registry.tools with all its
\* operations bound.
\* ------------------------------------------------------------------------
C1_InitFailureIsolated ==
  Done =>
    \A a, b \in Modules :
      ( /\ Before(a, b)
        /\ hook[a] = "initialize" /\ Invoked(a, "initialize")
        /\ hook[b] = "ok" /\ Invoked(b, "initialize") )
      => /\ FailureCarries(a, ErrorMessage(a, "initialize"))
         /\ ~HasInstance(a)
         /\ GetName(b) \in DOMAIN tools
         /\ AllBound(b)


\* ------------------------------------------------------------------------
\* C2  register_all_tools raises nothing and returns one entry for every
\* discovered unit, whatever the units do (import error, nothing to adapt,
\* disabled, failed validation, any hook or binding raising), for a
\* configuration whose tool_config entries are mappings.
\* ------------------------------------------------------------------------
WellFormed(c) == \A m \in Modules : MergeKwargs(InitKwargs, get_tool_config(c, m)) # Raise

C2_PassReturnsEveryModule ==
  /\ WellFormed(config) => pc # "raised"
  /\ Done => DOMAIN results = Range(discover_tools)

C2_Witness ==
  /\ Done
  /\ hook = [time_tools |-> "import_error", time_tools_v2 |-> "get_name",
             fred |-> "bind"]
  /\ results = [time_tools |-> FALSE, time_tools_v2 |-> FALSE, fred |-> FALSE]

\* ------------------------------------------------------------------------
\* C3  After the pass every enabled unit that resolves to a tool class,
\* passes validate_environment() and whose hooks raise nothing has its
\* get_name() as a key of registry.tools and all its operations bound; in
\* every state every unit stored in registry.tools has all its operations
\* bound.
\* ------------------------------------------------------------------------
InterfaceHooks ==
  {"ctor", "validate_environment", "initialize", "get_tools",
   "get_dependencies", "get_name"}

Resolves(m) == hook[m] \notin {Unknown, "import_error", "no_adapt"}

StoredUnitsBound == \A n \in DOMAIN tools : AllBound(tools[n])

\* as stated: only the hooks of the unit are required not to raise
C3_HooksQuietRegistered ==
  /\ Done =>
       \A m \in Modules :
         ( /\ Attempted(m) /\ Resolves(m)
           /\ validate_environment(m, env)
           /\ hook[m] \notin InterfaceHooks )
         => GetName(m) \in DOMAIN tools /\ AllBound(m)
  /\ StoredUnitsBound

\* amended: the binding of its operations must not raise either
C3_QuietRegistered ==
  /\ Done =>
       \A m \in Modules :
         ( /\ Attempted(m) /\ Resolves(m)
           /\ validate_environment(m, env)
           /\ hook[m] = "ok" )
         => GetName(m) \in DOMAIN tools /\ AllBound(m)
  /\ StoredUnitsBound

C3_Witness ==
  /\ Done
  /\ hook["fred"] = "ok" /\ Invoked("fred", "get_name")
  /\ "Fred" \in DOMAIN tools /\ tools["Fred"] = "fred"
  /\ "fred_get_series" \in DOMAIN bound

\* ------------------------------------------------------------------------
\* C4  A unit whose validate_environment() returns false is recorded in
\* failed_tools with the diagnostic "Failed environment validation"; its
\* initialization hook is not invoked, nothing of it is bound, no
\* dependency is appended and it is not stored in registry.tools.
\* ------------------------------------------------------------------------
\* the step is the iteration of unit m, and in it validate_environment()
\* returned false
ValidationFalseStep(m) ==
  /\ InLoop /\ Current = m /\ idx' = idx + 1
  /\ "validate_environment" \in Range(trace'[m])
  /\ hook'[m] # "validate_environment"
  /\ ~validate_environment(m, env)

ExcludedUntouched(m) ==
  /\ "initialize" \notin Range(trace'[m])
  /\ "bind" \notin Range(trace'[m])
  /\ bound' = bound
  /\ dependencies' = dependencies
  /\ tools' = tools
  /\ results'[m] = FALSE

FixedDiagnosticRecorded(m) ==
  /\ GetName(m) \in DOMAIN failed_tools'
  /\ failed_tools'[GetName(m)] = ValidationDiagnostic

\* as stated: for any unit whose validation returns false
C4_ValidationFalseDiagnostic ==
  [][\A m \in Modules :
       ValidationFalseStep(m)
       => FixedDiagnosticRecorded(m) /\ ExcludedUntouched(m)]_vars

\* amended: the fixed diagnostic is recorded when get_name() returns
C4_ValidationFalseExcluded ==
  [][\A m \in Modules :
       ValidationFalseStep(m)
       => /\ hook'[m] # "get_name" => FixedDiagnosticRecorded(m)
          /\ ExcludedUntouched(m)]_vars

C4_Witness ==
  /\ Done
  /\ "TZDATA" \notin env
  /\ hook["time_tools_v2"] = "initialize"
  /\ trace["time_tools_v2"]
       = <<"gate", "import", "ctor", "validate_environment", "get_name">>
  /\ "Time Tools" \in DOMAIN failed_tools
  /\ failed_tools["Time Tools"] = ValidationDiagnostic
  /\ results["time_tools_v2"] = FALSE


\* ------------------------------------------------------------------------
\* C5  In every state no name is both a key of registry.tools and a key of
\* registry.failed_tools.
\* ------------------------------------------------------------------------
C5_SuccessFailureDisjoint ==
  DOMAIN tools \cap DOMAIN failed_tools = {}

\* ------------------------------------------------------------------------
\* C6  With a non-empty enabled_tools mapping, a unit mapped to false is
\* skipped before adaptation: it is never imported, instantiated, validated
\* or initialized, nothing is bound for it, and neither registry.tools nor
\* registry.failed_tools gets an entry for it.
\* ------------------------------------------------------------------------
MappedFalse(c, m) ==
  /\ ~IsNone(c)
  /\ "enabled_tools" \in DOMAIN c
  /\ m \in DOMAIN c.enabled_tools
  /\ c.enabled_tools[m] = FALSE

\* no entry of failed_tools is keyed by the unit or was written for it
NoFailureEntry(m) ==
  /\ m \notin DOMAIN failed_tools
  /\ \A k \in DOMAIN failed_by : failed_by[k] # m

C6_DisabledSkipped ==
  \A m \in Modules :
    (pc # "boot" /\ MappedFalse(config, m))
    => /\ calls[m] \subseteq {"gate"}
       /\ ~HasInstance(m)
       /\ NoFailureEntry(m)
       /\ OwnBindings(m) = {}
       /\ m \in DOMAIN results => results[m] = FALSE

C6_Witness ==
  /\ Done
  /\ config = [enabled_tools |-> [time_tools |-> TRUE, time_tools_v2 |-> FALSE],
               tool_config |-> EmptyMap]
  /\ results = [time_tools |-> TRUE, time_tools_v2 |-> FALSE, fred |-> FALSE]
  /\ calls["time_tools_v2"] = {"gate"}
  /\ DOMAIN failed_tools = {}
  /\ DOMAIN bound = {"get_current_time", "convert_time"}

\* ------------------------------------------------------------------------
\* C7  A unit is attempted if and only if the enablement mapping is absent
\* or empty (the configuration being None, empty or holding only
\* tool_config included) or maps the unit to true; this is the answer of
\* is_tool_enabled on its own and the behaviour of the gate inside
\* register_all_tools.
\* ------------------------------------------------------------------------
ShouldAttempt(c, m) ==
  \/ ~HasEnabledTools(c)
  \/ (m \in DOMAIN c.enabled_tools /\ c.enabled_tools[m] = TRUE)

C7_GateRule ==
  /\ queried # NoQuery => queried.enabled = ShouldAttempt(config, queried.tool)
  /\ Done => \A m \in Modules : Attempted(m) <=> ShouldAttempt(config, m)

\* ------------------------------------------------------------------------
\* C8  When the server starts without a configuration file, the pass run
\* by initialize_tools() attempts every discovered unit: none is skipped
\* as disabled.
\* ------------------------------------------------------------------------
C8_UnconfiguredAttemptsAll ==
  (entry = "server" /\ unconfigured /\ Done)
  => \A m \in Modules : Attempted(m)

\* ------------------------------------------------------------------------
\* C9  If resolving a unit raises, load_tool_module records
\* failed_tools[module name] = the message of the error and returns None:
\* the unit is not instantiated, nothing is bound for it, its result is
\* false and the loop goes on to the next unit.
\* ------------------------------------------------------------------------
C9_ImportErrorRecorded ==
  \A m \in Modules :
    (hook[m] = "import_error" /\ m \in DOMAIN results)
    => /\ m \in DOMAIN failed_tools
       /\ failed_tools[m] = ErrorMessage(m, "import_error")
       /\ results[m] = FALSE
       /\ calls[m] = {"gate", "import"}
       /\ ~HasInstance(m)
       /\ OwnBindings(m) = {}
       /\ idx > Position(m)

C9_Witness ==
  /\ Done
  /\ hook["time_tools"] = "import_error"
  /\ failed_tools = [time_tools |-> "import_error failed in time_tools"]
  /\ results = [time_tools |-> FALSE, time_tools_v2 |-> TRUE, fred |-> TRUE]

\* ------------------------------------------------------------------------
\* C10  A unit that resolves but has neither a BaseTool subclass nor the
\* legacy convention is silently ignored: it is absent from
\* registry.tools, from registry.failed_tools and from the registered and
\* failed lists of get_status(), and nothing is bound for it.
\* ------------------------------------------------------------------------
C10_NoAdaptIgnored ==
  \A m \in Modules :
    hook[m] = "no_adapt"
    => /\ \A n \in get_status.registered : tools[n] # m
       /\ m \notin DOMAIN get_status.failed
       /\ \A k \in DOMAIN get_status.failed : failed_by[k] # m
       /\ OwnBindings(m) = {}
       /\ calls[m] = {"gate", "import"}
       /\ m \in DOMAIN results => results[m] = FALSE

C10_Witness ==
  /\ Done
  /\ hook = [time_tools |-> "ok", time_tools_v2 |-> "no_adapt", fred |-> "ok"]
  /\ results = [time_tools |-> TRUE, time_tools_v2 |-> FALSE, fred |-> TRUE]
  /\ get_status.registered = {"Time Tools", "Fred"}
  /\ DOMAIN get_status.failed = {}


\* ------------------------------------------------------------------------
\* C11  After a pass registry.tools holds exactly one instance for each
\* unit whose registration succeeded: it has as many entries as there are
\* units with a true result (get_name() values need not be distinct).
\* ------------------------------------------------------------------------
Succeeded == {m \in DOMAIN results : results[m]}

C11_OneInstancePerSuccess ==
  Done => Cardinality(DOMAIN tools) = Cardinality(Succeeded)


\* ------------------------------------------------------------------------
\* C12  get_tools() of a legacy wrapper probes get_<module_name>_tools,
\* get_<module_name without "_">_tools and get_tools in this order and
\* returns the mapping of the first accessor that exists and yields a
\* non-empty mapping, or the empty mapping; for a unit whose only accessor
\* is get_<module_name>_tools it is that accessor's mapping.
\* ------------------------------------------------------------------------
Usable(a) == a # Absent /\ a # <<>>

FirstUsable(mod) ==
  IF Usable(mod.named) THEN mod.named
  ELSE IF Usable(mod.stripped) THEN mod.stripped
  ELSE IF Usable(mod.generic) THEN mod.generic
  ELSE <<>>

C12_FirstNonEmptyAccessor ==
  legacy_pc = "probed" => legacy_tools = FirstUsable(legacy_module)

\* ------------------------------------------------------------------------
\* C13  initialize(**options) of a legacy wrapper first forwards the host
\* runtime reference to set_external_mcp, then calls the unit's initialize
\* exactly once: without arguments if it declares no parameter, with the
\* host runtime reference if it declares a parameter named mcp, otherwise
\* with the supplied options whose keys are declared parameters; the
\* wrapper is marked initialized only after that call has returned.
\* ------------------------------------------------------------------------
InitializeCalls == {i \in 1..Len(legacy_log) : legacy_log[i].fn = "initialize"}

ExpectedInitializeCall ==
  LET params == legacy_module.init_params IN
  \A i \in InitializeCalls :
    /\ params = {} => legacy_log[i].args = <<>> /\ DOMAIN legacy_log[i].kw = {}
    /\ (params # {} /\ "mcp" \in params)
         => legacy_log[i].args = <<"mcp">> /\ DOMAIN legacy_log[i].kw = {}
    /\ (params # {} /\ "mcp" \notin params)
         => /\ legacy_log[i].args = <<>>
            /\ DOMAIN legacy_log[i].kw
                 = {k \in DOMAIN legacy_kwargs : k \in params}
            /\ \A k \in DOMAIN legacy_log[i].kw :
                 legacy_log[i].kw[k] = legacy_kwargs[k]

C13_LegacyInitialize ==
  /\ Len(legacy_log) >= 1
       => legacy_log[1] = [fn |-> "set_external_mcp", args |-> <<"mcp">>,
                           kw |-> EmptyMap]
  /\ InitializeCalls \subseteq {2}
  /\ ExpectedInitializeCall
  /\ legacy_pc \in {"returned", "raised", "initialized", "probed"}
       => InitializeCalls = {2}
  /\ initialized
       => /\ InitializeCalls = {2}
          /\ ~legacy_module.init_raises
          /\ legacy_pc \in {"initialized", "probed"}
  /\ legacy_pc \in {"initialized", "probed"} => initialized

C13_Witness ==
  /\ legacy_pc = "initialized"
  /\ initialized
  /\ legacy_module.init_params = {"timeout", "api_key"}
  /\ legacy_kwargs = [timeout |-> "30", filesystem |-> "allowed_dirs"]
  /\ legacy_log[2] = [fn |-> "initialize", args |-> <<>>, kw |-> [timeout |-> "30"]]

\* ------------------------------------------------------------------------
\* C14  For every approved unit that exposes resource providers, the
\* registry binds each of them into the host runtime, next to the unit's
\* operations.
\* ------------------------------------------------------------------------
ResourcesBound(m) == Range(GetResources(m)) \subseteq DOMAIN resources

C14_ResourceProvidersBound ==
  Done => \A n \in DOMAIN tools : ResourcesBound(tools[n])

\* ------------------------------------------------------------------------
\* C15  A second run of register_all_tools on the same registry, with the
\* units, the configuration and the environment unchanged, leaves the same
\* registered names, the same failed_tools and the same bindings of
\* operation names as the first, and raises no error.
\* ------------------------------------------------------------------------
C15_SecondRunSame ==
  /\ (Done /\ ~previous_run.none)
       => /\ DOMAIN tools = previous_run.registered
          /\ failed_tools = previous_run.failed
          /\ bound = previous_run.bound
  /\ ~previous_run.none => pc # "raised"

C15_Witness ==
  /\ Done
  /\ pass = 2
  /\ ~previous_run.none
  /\ DOMAIN tools # {}
  /\ DOMAIN failed_tools # {}
  /\ \E o \in DOMAIN bound : \E p \in DOMAIN bound : bound[o] # bound[p]

\* ------------------------------------------------------------------------
\* C16  cleanup() invokes the cleanup hook of every unit in the live table
\* exactly once; an exception of one hook is caught, does not leave
\* cleanup() and does not keep the remaining hooks from being invoked.
\* ------------------------------------------------------------------------
TimesCleaned(n) ==
  Cardinality({i \in 1..Len(shutdown.cleaned) : shutdown.cleaned[i] = n})

C16_CleanupEveryHookOnce ==
  shutdown.called
    => /\ \A n \in DOMAIN tools : TimesCleaned(n) = 1
       /\ Range(shutdown.cleaned) \subseteq DOMAIN tools
       /\ ~shutdown.propagated

C16_Witness ==
  /\ shutdown.called
  /\ \E i \in 1..Len(shutdown.cleaned) : \E j \in 1..Len(shutdown.cleaned) :
       /\ i < j
       /\ shutdown.cleaned[i] \in shutdown.raising
       /\ shutdown.cleaned[j] \notin shutdown.raising

\* ------------------------------------------------------------------------
\* C17  get_status() reports as registered the names of the live table, as
\* failed the failed_tools map, as total_tools the number of operations
\* currently bound in the host runtime for live units and as
\* total_dependencies the number of distinct identifiers the registry
\* appended to the host's dependency list.
\* ------------------------------------------------------------------------
LiveModules == {tools[n] : n \in DOMAIN tools}

BoundForLive == {o \in DOMAIN bound : bound[o] \in LiveModules}

C17_StatusReports ==
  status # NoStatus
    => /\ status.registered = DOMAIN tools
       /\ status.failed = failed_tools
       /\ status.total_tools = Cardinality(BoundForLive)
       /\ status.total_dependencies = Cardinality(Range(dependencies))

\* ------------------------------------------------------------------------
\* Vocabulary of the SDK properties
\* ------------------------------------------------------------------------

\* call_tool has returned a ToolResult
Returned == sdk_call.phase = "returned"

\* the ToolResult carries the flag cached
FlaggedCached == Returned /\ "cached" \in sdk_call.result.metadata

Count(seq, x) == Cardinality({i \in DOMAIN seq : seq[i] = x})

\* how often the client was invoked by the call
ClientCalls == Count(sdk_call.steps, "client")

\* the cache key of the call
CallKey == cache_key(sdk_call.tool, sdk_call.params)

\* the last attempt of the call succeeded
LastAttemptSucceeded ==
  /\ sdk_call.response.kind # "raise"
  /\ ~(ParseResult(sdk_call.response).kind = "object"
        /\ ParseResult(sdk_call.response).error # NoKey)

\* ------------------------------------------------------------------------
\* C18  call_tool with retry n >= 1 that is not served from the cache
\* invokes the client at most n times and not again after the first
\* attempt that succeeds; it returns success=True with that attempt's
\* parsed data, or, when all n attempts failed, success=False, data None
\* and as error the message of the last failed attempt.
\* ------------------------------------------------------------------------
C18_RetryAtMostN ==
  sdk_call.retry >= 1
    => /\ ClientCalls <= sdk_call.retry
       /\ (Returned /\ ~FlaggedCached)
            => IF sdk_call.result.success
               THEN /\ LastAttemptSucceeded
                    /\ sdk_call.steps[Len(sdk_call.steps) - 1] = "client"
                    /\ sdk_call.result.data = ParseResult(sdk_call.response)
                    /\ sdk_call.result.error = None
               ELSE /\ ~LastAttemptSucceeded
                    /\ ClientCalls = sdk_call.retry
                    /\ sdk_call.result.data = None
                    /\ sdk_call.result.error = [str |-> sdk_call.response.error]

C18_Witness ==
  /\ Returned
  /\ sdk_call.retry = 2
  /\ ClientCalls = 2
  /\ sdk_call.result.success
  /\ sdk_call.result.data.value = "listing"

\* ------------------------------------------------------------------------
\* C19  After a successful call_tool(t, p) with caching enabled, a later
\* call with caching enabled, the same tool and the same parameters, made
\* while the entry is younger than cache_ttl, returns success=True with
\* the stored data and metadata cached=True without invoking the client; a
\* result that is not served from the cache carries no cached flag, and a
\* call with cache=False is never served from the cache.
\* ------------------------------------------------------------------------
Fresh(key) ==
  /\ key \in DOMAIN sdk_cache
  /\ clock - sdk_cache[key].timestamp < cache_ttl

CallBegins == sdk_call.phase # "attempting" /\ sdk_call' # sdk_call

ServedWhenFresh ==
  CallBegins =>
    LET key == cache_key(sdk_call'.tool, sdk_call'.params) IN
    (sdk_call'.cache /\ Fresh(key))
      => /\ sdk_call'.phase = "returned"
         /\ sdk_call'.steps = <<>>
         /\ sdk_call'.result =
              ToolResult(TRUE, sdk_cache[key].data, None, {"cached"})

CacheFlagHonest ==
  /\ FlaggedCached
       => /\ sdk_call.cache
          /\ ClientCalls = 0
          /\ sdk_call.result.success
          /\ CallKey \in DOMAIN sdk_cache
          /\ sdk_call.result.data = sdk_cache[CallKey].data
  /\ (Returned /\ ~FlaggedCached) => sdk_call.result.metadata = {}
  /\ (Returned /\ ~FlaggedCached /\ sdk_call.result.success /\ sdk_call.cache)
       => /\ CallKey \in DOMAIN sdk_cache
          /\ sdk_cache[CallKey].data = sdk_call.result.data

C19_CacheServes == []CacheFlagHonest /\ [][ServedWhenFresh]_vars

C19_Witness ==
  /\ FlaggedCached
  /\ sdk_call.result.data.value = "plain words"
  /\ sdk_cache[CallKey].timestamp < clock

\* ------------------------------------------------------------------------
\* C20  For a call_tool that is not served from the cache the handlers see
\* 'before_call' before each attempt and then either exactly one
\* 'after_call', after the successful attempt, or exactly one 'error',
\* after all attempts failed, never both; an exception of a handler is
\* caught and does not change the ToolResult.
\* ------------------------------------------------------------------------
ResultOfAttempts ==
  IF ClientCalls >= 1 /\ LastAttemptSucceeded
  THEN ToolResult(TRUE, ParseResult(sdk_call.response), None, {})
  ELSE ToolResult(FALSE, None,
                  IF ClientCalls = 0 THEN None
                  ELSE [str |-> sdk_call.response.error], {})

C20_EventOrder ==
  LET steps == sdk_call.steps
      after == Count(steps, "after_call")
      error == Count(steps, "error")
  IN /\ \A i \in DOMAIN steps :
          steps[i] = "client" => i > 1 /\ steps[i - 1] = "before_call"
     /\ Count(steps, "before_call") = ClientCalls
     /\ ~Returned => after + error = 0
     /\ (Returned /\ ~FlaggedCached)
          => /\ after + error = 1
             /\ sdk_call.result.success
                  => /\ after = 1
                     /\ steps[Len(steps)] = "after_call"
                     /\ steps[Len(steps) - 1] = "client"
             /\ ~sdk_call.result.success
                  => /\ error = 1
                     /\ steps[Len(steps)] = "error"
             /\ sdk_call.result = ResultOfAttempts

C20_Witness ==
  /\ Returned
  /\ handler_raises = SdkEvents
  /\ sdk_call.logged = 3
  /\ sdk_call.steps = <<"before_call", "client", "before_call", "client",
                        "after_call">>
  /\ sdk_call.result.success

\* ------------------------------------------------------------------------
\* C21  A ToolResult of call_tool with success=False has data None and an
\* error that is not None, whatever the tool, the parameters and the retry
\* count (0 included); one with success=True has error None.
\* ------------------------------------------------------------------------
C21_FailureCarriesError ==
  Returned
    => /\ ~sdk_call.result.success
            => sdk_call.result.data = None /\ sdk_call.result.error # None
       /\ sdk_call.result.success => sdk_call.result.error = None

\* ------------------------------------------------------------------------
\* C22  batch_call, and batch_call_async under any interleaving of its
\* calls, return exactly one ToolResult per operation, at the position of
\* the operation in the input list, with or without per-operation options;
\* an operation that fails yields a failed ToolResult at its position and
\* does not prevent the other operations from being executed and reported:
\* no batch ends with an exception, and the list a batch returns has, at
\* each position, the result of the call made for the operation there.
\* ------------------------------------------------------------------------
ResultFor(i) ==
  LET op == batch.ops[i]
      c == batch.calls[i]
  IN /\ c.phase = "returned"
     /\ c.tool = op.tool
     /\ c.params = op.params
     /\ c.cache = CacheOption(op.options)
     /\ batch.results[i] = c.result

C22_BatchOneResultPerOperation ==
  /\ batch.phase # "raised"
  /\ batch.phase = "returned"
       => /\ Len(batch.results) = Len(batch.ops)
          /\ \A i \in DOMAIN batch.ops : ResultFor(i)

\* ------------------------------------------------------------------------
\* C30  In every reachable state of the SDK, under any sequence or
\* interleaving of call_tool invocations, each cache entry holds data the
\* client returned in a successful attempt for exactly that entry's tool
\* name and caller-supplied parameters; an attempt that raised or returned
\* an object with an 'error' key, and a call made with cache=False, never
\* creates or changes a cache entry.
\* ------------------------------------------------------------------------
CacheEntryGenuine(key) ==
  LET e == sdk_cache[key]
  IN /\ key = cache_key(e.source.tool, e.source.params)
     /\ e.source.cache
     /\ e.source.response \in Responses
     /\ AttemptError(e.source.response) = None
     /\ e.data = ParseResult(e.source.response)

CacheEntriesGenuine == \A key \in DOMAIN sdk_cache : CacheEntryGenuine(key)

\* the call went from c to d by a successful attempt with caching enabled,
\* and the cache changed in the entry of that call only
StoredBy(c, d) ==
  LET key == cache_key(c.tool, c.params)
  IN /\ c.phase = "attempting"
     /\ d.phase = "returned"
     /\ d.tool = c.tool /\ d.params = c.params
     /\ c.cache
     /\ d.attempt = c.attempt + 1
     /\ d.response.kind # "raise"
     /\ ~(ParseResult(d.response).kind = "object"
           /\ ParseResult(d.response).error # NoKey)
     /\ d.result.success
     /\ DOMAIN sdk_cache' = DOMAIN sdk_cache \cup {key}
     /\ sdk_cache'[key].data = d.result.data
     /\ \A k \in DOMAIN sdk_cache : k # key => sdk_cache'[k] = sdk_cache[k]

CacheChangedBySuccessOnly ==
  sdk_cache' # sdk_cache
    => \/ StoredBy(sdk_call, sdk_call')
       \/ \E i \in DOMAIN batch.calls : StoredBy(batch.calls[i], batch'.calls[i])

C30_CacheHoldsSuccessfulData ==
  []CacheEntriesGenuine /\ [][CacheChangedBySuccessOnly]_vars

C30_Witness ==
  /\ batch.mode = "async"
  /\ batch.phase = "returned"
  /\ middleware = Middlewares
  /\ Len(batch.ops) = 2
  /\ \A i \in 1..2 :
       /\ batch.ops[i].params = [path |-> "b"]
       /\ batch.calls[i].sent = [path |-> "a"]
       /\ batch.results[i].success
       /\ batch.results[i].metadata = {}
  /\ batch.results[1].data # batch.results[2].data
  /\ DOMAIN sdk_cache = {cache_key("read_file", [path |-> "b"])}
  /\ sdk_cache[cache_key("read_file", [path |-> "b"])].data
       = batch.results[1].data

\* ------------------------------------------------------------------------
\* C23  For each module the steps of the pipeline happen in a fixed order,
\* each only if the previous one succeeded: the gate, the resolution, then
\* validate_environment(), the initialization hook, the binding of the
\* operations, the appending of the dependencies, the recording in the
\* live table.  validate_environment() is never invoked for a disabled
\* module, the initialization hook never before validate_environment()
\* returned true, and no operation is bound before the initialization hook
\* returned.
\* ------------------------------------------------------------------------
StepRank(s) ==
  CASE s = "gate"                 -> 1
    [] s = "import"               -> 2
    [] s = "ctor"                 -> 3
    [] s = "validate_environment" -> 4
    [] s = "initialize"           -> 5
    [] s = "get_tools"            -> 6
    [] s = "bind"                 -> 7
    [] s = "get_dependencies"     -> 8
    [] s = "get_name"             -> 9

\* the steps are in the order of the pipeline, none but the binding twice
InPipelineOrder(t) ==
  \A i, j \in DOMAIN t :
    i < j => \/ StepRank(t[i]) < StepRank(t[j])
             \/ t[i] = "bind" /\ t[j] = "bind"

\* the configuration excludes the unit
Disabled(m) == Truthy(config) /\ ~is_tool_enabled(config, m)

\* the steps of a registration that went through, for a unit with n
\* operations
FullTrace(n) ==
  <<"gate", "import", "ctor", "validate_environment", "initialize",
    "get_tools">> \o [i \in 1..n |-> "bind"] \o <<"get_dependencies", "get_name">>

StepsJustified(m) ==
  /\ Invoked(m, "import") => Invoked(m, "gate") /\ ~Disabled(m)
  /\ Invoked(m, "ctor")
       => Invoked(m, "import") /\ hook[m] \notin {"import_error", "no_adapt"}
  /\ Invoked(m, "validate_environment")
       => Invoked(m, "ctor") /\ hook[m] # "ctor" /\ ~Disabled(m)
  /\ Invoked(m, "initialize")
       => /\ Invoked(m, "validate_environment")
          /\ hook[m] # "validate_environment"
          /\ validate_environment(m, env)
  /\ Invoked(m, "get_tools")
       => Invoked(m, "initialize") /\ hook[m] # "initialize"
  /\ Invoked(m, "bind")
       => /\ Invoked(m, "get_tools")
          /\ hook[m] \notin {"initialize", "get_tools"}
  /\ Invoked(m, "get_dependencies")
       => /\ Invoked(m, "initialize")
          /\ Count(trace[m], "bind") = Len(GetTools(m))
          /\ hook[m] # "bind"
  /\ (m \in DOMAIN results /\ results[m])
       => /\ trace[m] = FullTrace(Len(GetTools(m)))
          /\ hook[m] = "ok"

C23_PipelineOrder ==
  pc \in {"running", "done"}
    => \A m \in Modules :
         /\ InPipelineOrder(trace[m])
         /\ StepsJustified(m)

C23_Witness ==
  /\ Done
  /\ \E m \in Modules : Disabled(m) /\ trace[m] = <<"gate">>
  /\ \E m \in Modules :
       /\ ~validate_environment(m, env)
       /\ trace[m][Len(trace[m])] \in {"validate_environment", "get_name"}
       /\ ~Invoked(m, "initialize")
  /\ \E m \in Modules :
       /\ results[m]
       /\ Count(trace[m], "bind") >= 2

\* ------------------------------------------------------------------------
\* C24  The options handed to a module's initialization hook are the
\* caller-supplied global initialization parameters overlaid with that
\* module's tool_config entry: every key of either appears, and for a key
\* present in both the per-module value is the one passed; a module with
\* no tool_config entry receives exactly the global parameters, and one
\* module's tool_config never reaches another module's hook.
\* ------------------------------------------------------------------------
HasToolConfig(m) ==
  /\ Truthy(config)
  /\ "tool_config" \in DOMAIN config
  /\ ~IsNone(config.tool_config)
  /\ m \in DOMAIN config.tool_config

Overlaid(m) ==
  LET given == passed[m]
      entry_m == config.tool_config[m]
  IN /\ DOMAIN given = DOMAIN InitKwargs \cup DOMAIN entry_m
     /\ \A k \in DOMAIN entry_m : given[k] = entry_m[k]
     /\ \A k \in DOMAIN InitKwargs \ DOMAIN entry_m : given[k] = InitKwargs[k]

C24_OptionsOverlaid ==
  \A m \in Modules :
    passed[m] # NotPassed
      => /\ Invoked(m, "initialize")
         /\ IF HasToolConfig(m) THEN Overlaid(m) ELSE passed[m] = InitKwargs

C24_Witness ==
  /\ Done
  /\ InitKwargs = [timeout |-> "30"]
  /\ passed["fred"] = [api_key |-> "k1", timeout |-> "5"]
  /\ passed["time_tools_v2"] = [timeout |-> "30"]

\* ------------------------------------------------------------------------
\* C25  A module excluded by configuration is recorded as 'disabled': after
\* the pass, the outcome the registry holds for it (its value in the
\* result of register_all_tools and what get_status() shows for it) differs
\* from the outcome of a module that failed and from the outcome of a
\* module that was silently ignored.
\* ------------------------------------------------------------------------
\* what the result of the pass and get_status() tell about the unit
Observed(m) ==
  [result |-> results[m],
   diagnosed |-> \/ m \in DOMAIN failed_tools
                 \/ \E k \in DOMAIN failed_by : failed_by[k] = m,
   live |-> HasInstance(m)]

C25_DisabledDistinguishable ==
  Done
    => \A a, b \in DOMAIN results :
         (Disabled(a) /\ ~Disabled(b) /\ ~results[b])
           => Observed(a) # Observed(b)

\* ------------------------------------------------------------------------
\* C26  Registration of a module is all-or-nothing towards the host
\* runtime: if register_tool fails for a module at any step, then
\* afterwards none of that module's operations is bound and none of its
\* dependencies is in the host's dependency list: the bindings and the
\* dependency list of the host are what they were before the module was
\* attempted.
\* ------------------------------------------------------------------------
\* the step is an iteration of the loop in which register_tool returned
\* False for the current unit
RegistrationFailed ==
  /\ InLoop
  /\ idx' = idx + 1
  /\ "ctor" \in Range(trace'[Current])
  /\ ~results'[Current]

HostUntouched ==
  RegistrationFailed => bound' = bound /\ dependencies' = dependencies

C26_AllOrNothing == [][HostUntouched]_vars

\* ------------------------------------------------------------------------
\* C27  Failures are recorded per module: after a pass, every module that
\* failed at resolution, at environment validation or with an exception
\* during registration has its own entry in failed_tools, under a name of
\* that module and holding that module's diagnostic; the failure of a
\* module processed later never overwrites or removes it.
\* ------------------------------------------------------------------------
\* the unit failed in the most recent pass: its import raised, its
\* validation was false, or a step of register_tool raised
FailedInPass(m) ==
  /\ m \in DOMAIN results
  /\ ~results[m]
  /\ Invoked(m, "import")
  /\ hook[m] # "no_adapt"

\* failed_tools has an entry under a name of the unit, written for it last
OwnFailureEntry(m) ==
  \E k \in DOMAIN failed_tools \cap {m, ClassName(m), GetName(m)} :
    failed_by[k] = m

C27_FailurePerModule ==
  Done => \A m \in Modules : FailedInPass(m) => OwnFailureEntry(m)

\* ------------------------------------------------------------------------
\* C28  Every tool instance whose initialization hook was invoked has its
\* cleanup hook invoked when registry.cleanup() runs at shutdown,
\* including an instance whose registration failed after initialization
\* and an instance that a later registration replaced in the live table
\* under the same name.
\* ------------------------------------------------------------------------
\* cleanup() invoked the cleanup hook of an instance of the unit
CleanedUp(m) ==
  \E i \in 1..Len(shutdown.cleaned) : tools[shutdown.cleaned[i]] = m

C28_InitializedIsCleaned ==
  shutdown.called
    => \A m \in Modules : "initialize" \in calls[m] => CleanedUp(m)

\* ------------------------------------------------------------------------
\* C29  A malformed configuration entry for one module (a tool_config
\* value for that module that is not a mapping, e.g. null, or a
\* tool_config section that is null) is contained at that module's
\* boundary: register_all_tools does not raise, the other enabled valid
\* modules are still registered, and the affected module is reported as
\* not registered.
\* ------------------------------------------------------------------------
\* the options the configuration holds for the unit are not a mapping
MalformedFor(m) ==
  /\ Truthy(config)
  /\ "tool_config" \in DOMAIN config
  /\ \/ IsNone(config.tool_config)
     \/ /\ m \in DOMAIN config.tool_config
        /\ IsNone(config.tool_config[m])

C29_MalformedConfigContained ==
  (pc # "boot" /\ \E m \in Modules : MalformedFor(m))
    => /\ pc # "raised"
       /\ Done
            => \A m \in Modules :
                 /\ (MalformedFor(m) /\ ~Disabled(m))
                      => m \in DOMAIN results /\ ~results[m]
                 /\ ( /\ ~MalformedFor(m) /\ ~Disabled(m)
                      /\ hook[m] = "ok" /\ validate_environment(m, env) )
                      => m \in DOMAIN results /\ results[m]

====
